---- MODULE Spec2Model ----
(***************************************************************************)
(* Model of src/src/server.py: the in-memory, per-user list store and the  *)
(* eight tools that read or mutate it.                                     *)
(*                                                                         *)
(* Python values are modelled as follows.                                  *)
(*   - a dict that is iterated (a user's lists) is the sequence of its     *)
(*     values in insertion order; the key of an entry is its "name" field; *)
(*   - the outer dict user_lists_data is a function whose domain is the    *)
(*     set of user ids seen so far;                                        *)
(*   - a str that is lower-cased or searched is a sequence of characters;  *)
(*     list names, user ids and descriptions are only compared, so they    *)
(*     are TLA+ strings;                                                   *)
(*   - an Optional[str] argument is <<>> (None) or <<s>>;                  *)
(*   - an f-string is the sequence of its pieces.                          *)
(***************************************************************************)
EXTENDS Integers, Sequences, FiniteSets, TLC

VARIABLES user_lists_data, last, calls

vars == <<user_lists_data, last, calls>>

----------------------------------------------------------------------------
(* Bounds and input sets *)

MaxCalls == 6

Milk == <<"M", "i", "l", "k">>
Eggs == <<"E", "g", "g", "s">>

Headers == {<<>>, <<"alice">>}
ListNames == {"", "Groceries"}
CreateInputs ==
    { [name |-> "", description |-> ""],
      [name |-> "Groceries", description |-> "weekly"] }
ItemInputs ==
    { [item |-> Milk, quantity |-> 2, notes |-> <<>>],
      [item |-> Eggs, quantity |-> 1, notes |-> <<"o", "k">>] }
ItemIds == {1, 2, 3}
Queries == { <<>>, <<"M", "I", "L", "K">>, <<"K">> }
Scopes == {<<>>} \cup { <<n>> : n \in ListNames }

----------------------------------------------------------------------------
(* Python built-ins used by the tools *)

LowerChar(c) ==
    CASE c = "M" -> "m"
      [] c = "I" -> "i"
      [] c = "L" -> "l"
      [] c = "K" -> "k"
      [] c = "E" -> "e"
      [] OTHER -> c

Lower(s) == [i \in 1..Len(s) |-> LowerChar(s[i])]

Contains(q, s) ==
    \E i \in 0..(Len(s) - Len(q)) : SubSeq(s, i + 1, i + Len(q)) = q

Digits == <<"0", "1", "2", "3", "4", "5", "6", "7", "8", "9">>

RECURSIVE Str(_)
Str(n) ==
    IF n < 10 THEN <<Digits[n + 1]>>
    ELSE Str(n \div 10) \o <<Digits[(n % 10) + 1]>>

Truthy(opt) == opt # <<>> /\ opt[1] # ""

HasKey(user_lists, name) ==
    \E i \in 1..Len(user_lists) : user_lists[i].name = name

KeyIndex(user_lists, name) ==
    CHOOSE i \in 1..Len(user_lists) : user_lists[i].name = name

Lookup(user_lists, name) == user_lists[KeyIndex(user_lists, name)]

PopKey(user_lists, name) ==
    LET k == KeyIndex(user_lists, name)
    IN  SubSeq(user_lists, 1, k - 1) \o SubSeq(user_lists, k + 1, Len(user_lists))

HasId(items, item_id) == \E i \in 1..Len(items) : items[i].id = item_id

LastMatch(items, item_id) ==
    CHOOSE i \in 1..Len(items) :
        /\ items[i].id = item_id
        /\ \A j \in (i + 1)..Len(items) : items[j].id # item_id

FirstMatch(items, item_id) ==
    CHOOSE i \in 1..Len(items) :
        /\ items[i].id = item_id
        /\ \A j \in 1..(i - 1) : items[j].id # item_id

PopAt(items, i) == SubSeq(items, 1, i - 1) \o SubSeq(items, i + 1, Len(items))

NewItemIdZeroBased(items) == Len(items)

NewItemIdAfterMax(items) ==
    IF items = <<>> THEN 1
    ELSE 1 + (CHOOSE m \in {items[i].id : i \in 1..Len(items)} :
                  \A i \in 1..Len(items) : items[i].id <= m)

NewItemId(items) == Len(items) + 1

CountCompleted(items) == Cardinality({i \in 1..Len(items) : items[i].completed})

----------------------------------------------------------------------------
(* Identity and storage lookup *)

get_user_id(headers) == IF headers = <<>> THEN "anonymous" ELSE headers[1]

ListsOf(data, user_id) == IF user_id \in DOMAIN data THEN data[user_id] ELSE <<>>

get_user_lists_shared(data, user_id) ==
    IF user_id \in DOMAIN data THEN data
    ELSE data @@ (user_id :> ListsOf(data, "anonymous"))

get_user_lists(data, user_id) ==
    IF user_id \in DOMAIN data THEN data ELSE data @@ (user_id :> <<>>)

MsgListMissing(list_name) == <<"List '", list_name, "' does not exist">>

MsgItemMissing(list_name, item_id) ==
    <<"Item with ID ">> \o Str(item_id) \o <<" not found in list '", list_name, "'">>

----------------------------------------------------------------------------
(* The tools: each maps the store, the caller and the arguments to the new *)
(* store and the returned dict.                                            *)

create_list_overwrite(data, user_id, name, description) ==
    LET d == get_user_lists(data, user_id)
        user_lists == d[user_id]
        rec == [name |-> name, description |-> description, items |-> <<>>]
        ok == [success |-> TRUE,
               message |-> <<"List '", name, "' created successfully">>,
               list |-> rec]
    IN  IF HasKey(user_lists, name)
        THEN [data |-> [d EXCEPT ![user_id][KeyIndex(user_lists, name)] = rec],
              result |-> ok]
        ELSE [data |-> [d EXCEPT ![user_id] = Append(@, rec)], result |-> ok]

create_list(data, user_id, name, description) ==
    LET d == get_user_lists(data, user_id)
        user_lists == d[user_id]
        rec == [name |-> name, description |-> description, items |-> <<>>]
    IN  IF HasKey(user_lists, name)
        THEN [data |-> d,
              result |-> [success |-> FALSE,
                          message |-> <<"List '", name, "' already exists">>]]
        ELSE [data |-> [d EXCEPT ![user_id] = Append(@, rec)],
              result |-> [success |-> TRUE,
                          message |-> <<"List '", name, "' created successfully">>,
                          list |-> rec]]

add_item_to_list(data, user_id, list_name, item, quantity, notes) ==
    LET d == get_user_lists(data, user_id)
        user_lists == d[user_id]
    IN  IF ~HasKey(user_lists, list_name)
        THEN [data |-> d,
              result |-> [success |-> FALSE, message |-> MsgListMissing(list_name)]]
        ELSE LET k == KeyIndex(user_lists, list_name)
                 new_item == [text |-> item,
                              quantity |-> quantity,
                              notes |-> notes,
                              completed |-> FALSE,
                              id |-> NewItemId(user_lists[k].items)]
             IN  [data |-> [d EXCEPT ![user_id][k].items = Append(@, new_item)],
                  result |-> [success |-> TRUE,
                              message |-> <<"Item '">> \o item
                                            \o <<"' added to list '", list_name, "'">>,
                              item |-> new_item]]

Summary(list_data) ==
    [name |-> list_data.name,
     description |-> list_data.description,
     item_count |-> Len(list_data.items),
     completed_count |-> CountCompleted(list_data.items)]

get_lists(data, user_id) ==
    LET d == get_user_lists(data, user_id)
        user_lists == d[user_id]
        lists_summary == [i \in 1..Len(user_lists) |-> Summary(user_lists[i])]
    IN  [data |-> d,
         result |-> [success |-> TRUE,
                     lists |-> lists_summary,
                     total_lists |-> Len(lists_summary)]]

get_list_items(data, user_id, list_name) ==
    LET d == get_user_lists(data, user_id)
        user_lists == d[user_id]
    IN  IF ~HasKey(user_lists, list_name)
        THEN [data |-> d,
              result |-> [success |-> FALSE, message |-> MsgListMissing(list_name)]]
        ELSE [data |-> d,
              result |-> [success |-> TRUE,
                          list_name |-> list_name,
                          items |-> Lookup(user_lists, list_name).items,
                          total_items |-> Len(Lookup(user_lists, list_name).items)]]

remove_item_from_list(data, user_id, list_name, item_id) ==
    LET d == get_user_lists(data, user_id)
        user_lists == d[user_id]
    IN  IF ~HasKey(user_lists, list_name)
        THEN [data |-> d,
              result |-> [success |-> FALSE, message |-> MsgListMissing(list_name)]]
        ELSE LET k == KeyIndex(user_lists, list_name)
                 items == user_lists[k].items
             IN  IF HasId(items, item_id)
                 THEN LET i == FirstMatch(items, item_id)
                      IN  [data |-> [d EXCEPT ![user_id][k].items = PopAt(items, i)],
                           result |-> [success |-> TRUE,
                                       message |-> <<"Item removed from list '",
                                                     list_name, "'">>,
                                       removed_item |-> items[i]]]
                 ELSE [data |-> d,
                       result |-> [success |-> FALSE,
                                   message |-> MsgItemMissing(list_name, item_id)]]

delete_list_bare_failure(data, user_id, list_name) ==
    LET d == get_user_lists(data, user_id)
        user_lists == d[user_id]
    IN  IF ~HasKey(user_lists, list_name)
        THEN [data |-> d, result |-> [success |-> FALSE]]
        ELSE [data |-> [d EXCEPT ![user_id] = PopKey(user_lists, list_name)],
              result |-> [success |-> TRUE,
                          message |-> <<"List '", list_name, "' deleted successfully">>,
                          deleted_list |-> Lookup(user_lists, list_name)]]

delete_list(data, user_id, list_name) ==
    LET d == get_user_lists(data, user_id)
        user_lists == d[user_id]
    IN  IF ~HasKey(user_lists, list_name)
        THEN [data |-> d,
              result |-> [success |-> FALSE, message |-> MsgListMissing(list_name)]]
        ELSE [data |-> [d EXCEPT ![user_id] = PopKey(user_lists, list_name)],
              result |-> [success |-> TRUE,
                          message |-> <<"List '", list_name, "' deleted successfully">>,
                          deleted_list |-> Lookup(user_lists, list_name)]]

FlipToCompleted(item) == [item EXCEPT !.completed = TRUE]

Flip(item) == [item EXCEPT !.completed = ~item.completed]

toggle_item_completion(data, user_id, list_name, item_id) ==
    LET d == get_user_lists(data, user_id)
        user_lists == d[user_id]
    IN  IF ~HasKey(user_lists, list_name)
        THEN [data |-> d,
              result |-> [success |-> FALSE, message |-> MsgListMissing(list_name)]]
        ELSE LET k == KeyIndex(user_lists, list_name)
                 items == user_lists[k].items
             IN  IF HasId(items, item_id)
                 THEN LET i == FirstMatch(items, item_id)
                          item == Flip(items[i])
                          status == IF item.completed THEN "completed" ELSE "uncompleted"
                      IN  [data |-> [d EXCEPT ![user_id][k].items[i] = item],
                           result |-> [success |-> TRUE,
                                       message |-> <<"Item marked as ", status>>,
                                       item |-> item]]
                 ELSE [data |-> d,
                       result |-> [success |-> FALSE,
                                   message |-> MsgItemMissing(list_name, item_id)]]

MatchesTruthyNotes(query, item) ==
    \/ Contains(Lower(query), Lower(item.text))
    \/ Lower(item.notes) # <<>>

Matches(query, item) ==
    \/ Contains(Lower(query), Lower(item.text))
    \/ Contains(Lower(query), Lower(item.notes))

ListsToSearch(user_lists, list_name) ==
    IF Truthy(list_name) /\ HasKey(user_lists, list_name[1])
    THEN <<Lookup(user_lists, list_name[1])>>
    ELSE user_lists

ListResults(query, list_data) ==
    LET hits == SelectSeq(list_data.items, LAMBDA item : Matches(query, item))
    IN  [i \in 1..Len(hits) |-> [list_name |-> list_data.name, item |-> hits[i]]]

RECURSIVE SearchResults(_, _)
SearchResults(query, lists) ==
    IF lists = <<>> THEN <<>>
    ELSE ListResults(query, Head(lists)) \o SearchResults(query, Tail(lists))

search_items(data, user_id, query, list_name) ==
    LET d == get_user_lists(data, user_id)
        user_lists == d[user_id]
        results == SearchResults(query, ListsToSearch(user_lists, list_name))
    IN  [data |-> d,
         result |-> [success |-> TRUE,
                     query |-> query,
                     results |-> results,
                     total_found |-> Len(results)]]

----------------------------------------------------------------------------
(* State machine: one action per tool call.  `last` records the most       *)
(* recent call: the tool, the caller, the arguments and the returned dict. *)
(* `calls` counts the calls served and is capped by MaxCalls.              *)

Call(op, user_id, args, r) ==
    /\ calls < MaxCalls
    /\ calls' = calls + 1
    /\ user_lists_data' = r.data
    /\ last' = [op |-> op, user |-> user_id, args |-> args, result |-> r.result]

Init ==
    /\ user_lists_data = <<>>
    /\ calls = 0
    /\ last = [op |-> "none"]

CreateList ==
    \E h \in Headers, in \in CreateInputs :
        Call("create_list", get_user_id(h), in,
             create_list(user_lists_data, get_user_id(h), in.name, in.description))

AddItemToList ==
    \E h \in Headers, l \in ListNames, in \in ItemInputs :
        Call("add_item_to_list", get_user_id(h),
                [list_name |-> l, item |-> in.item, quantity |-> in.quantity,
                 notes |-> in.notes],
                add_item_to_list(user_lists_data, get_user_id(h), l,
                                 in.item, in.quantity, in.notes))

GetLists ==
    \E h \in Headers :
        Call("get_lists", get_user_id(h), <<>>,
             get_lists(user_lists_data, get_user_id(h)))

GetListItems ==
    \E h \in Headers, l \in ListNames :
        Call("get_list_items", get_user_id(h), [list_name |-> l],
             get_list_items(user_lists_data, get_user_id(h), l))

RemoveItemFromList ==
    \E h \in Headers, l \in ListNames, id \in ItemIds :
        Call("remove_item_from_list", get_user_id(h),
             [list_name |-> l, item_id |-> id],
             remove_item_from_list(user_lists_data, get_user_id(h), l, id))

DeleteList ==
    \E h \in Headers, l \in ListNames :
        Call("delete_list", get_user_id(h), [list_name |-> l],
             delete_list(user_lists_data, get_user_id(h), l))

ToggleItemCompletion ==
    \E h \in Headers, l \in ListNames, id \in ItemIds :
        Call("toggle_item_completion", get_user_id(h),
             [list_name |-> l, item_id |-> id],
             toggle_item_completion(user_lists_data, get_user_id(h), l, id))

SearchItems ==
    \E h \in Headers, q \in Queries, s \in Scopes :
        Call("search_items", get_user_id(h), [query |-> q, list_name |-> s],
             search_items(user_lists_data, get_user_id(h), q, s))

Next ==
    \/ CreateList
    \/ AddItemToList
    \/ GetLists
    \/ GetListItems
    \/ RemoveItemFromList
    \/ DeleteList
    \/ ToggleItemCompletion
    \/ SearchItems

Spec == Init /\ [][Next]_vars

----------------------------------------------------------------------------
(* Vocabulary of the properties *)

Users == { get_user_id(h) : h \in Headers }

Names(user_lists) == { user_lists[i].name : i \in 1..Len(user_lists) }

Ids(items) == [i \in 1..Len(items) |-> items[i].id]

ItemsOf(data, user_id, list_name) == Lookup(ListsOf(data, user_id), list_name).items

AllItems(user_lists) ==
    { user_lists[i].items[j] : <<i, j>> \in
        { p \in (1..Len(user_lists)) \X (1..MaxCalls) : p[2] <= Len(user_lists[p[1]].items) } }

RECURSIVE SearchAll(_)
SearchAll(lists) ==
    IF lists = <<>> THEN <<>>
    ELSE [i \in 1..Len(Head(lists).items) |->
              [list_name |-> Head(lists).name, item |-> Head(lists).items[i]]]
         \o SearchAll(Tail(lists))

FoldedSubstring(q, s) == Contains(Lower(q), Lower(s))

Called(op) == last.op = op

Succeeded(op) == last.op = op /\ last.result.success

(* The dict a call returns, as the dispatcher computes it from the store. *)
Apply(data, c) ==
    CASE c.op = "create_list" ->
           create_list(data, c.user, c.args.name, c.args.description)
      [] c.op = "add_item_to_list" ->
           add_item_to_list(data, c.user, c.args.list_name, c.args.item,
                            c.args.quantity, c.args.notes)
      [] c.op = "get_lists" -> get_lists(data, c.user)
      [] c.op = "get_list_items" -> get_list_items(data, c.user, c.args.list_name)
      [] c.op = "remove_item_from_list" ->
           remove_item_from_list(data, c.user, c.args.list_name, c.args.item_id)
      [] c.op = "delete_list" -> delete_list(data, c.user, c.args.list_name)
      [] c.op = "toggle_item_completion" ->
           toggle_item_completion(data, c.user, c.args.list_name, c.args.item_id)
      [] c.op = "search_items" ->
           search_items(data, c.user, c.args.query, c.args.list_name)

Only(data, user_id) == [u \in (DOMAIN data) \cap {user_id} |-> data[u]]

----------------------------------------------------------------------------
(* C1: after a successful remove_item_from_list(list_name, item_id), an    *)
(* immediately following remove_item_from_list with the same arguments     *)
(* fails with success = false and the "not found" message.                 *)
C1_SecondRemoveFails ==
    \A u \in Users, l \in ListNames, id \in ItemIds :
        LET r1 == remove_item_from_list(user_lists_data, u, l, id)
            r2 == remove_item_from_list(r1.data, u, l, id)
        IN  r1.result.success =>
                /\ r2.result.success = FALSE
                /\ r2.result.message = MsgItemMissing(l, id)

(* C2 as stated: search_items with an empty query, or with a query that is *)
(* a substring of no item's text or notes, over a store in which the       *)
(* caller has at least one item, finds nothing.                            *)
C2_EmptyOrNonMatchingFindsNothing ==
    Called("search_items") =>
        LET items == AllItems(user_lists_data[last.user])
            q == last.args.query
        IN  (/\ items # {}
             /\ \/ q = <<>>
                \/ \A it \in items : ~FoldedSubstring(q, it.text)
                                     /\ ~FoldedSubstring(q, it.notes))
            => /\ last.result.total_found = 0
               /\ last.result.results = <<>>

(* C2 amended: a query that is, case-folded, a substring of no item's text *)
(* or notes finds nothing; an empty query is a substring of every text and *)
(* returns every item of the searched lists, in order.                     *)
C2_NonMatchingFindsNothingEmptyFindsAll ==
    Called("search_items") =>
        LET user_lists == user_lists_data[last.user]
            items == AllItems(user_lists)
            q == last.args.query
            searched == ListsToSearch(user_lists, last.args.list_name)
            everything == SearchAll(searched)
        IN  /\ (\A it \in items : ~FoldedSubstring(q, it.text)
                                  /\ ~FoldedSubstring(q, it.notes))
               => /\ last.result.total_found = 0
                  /\ last.result.results = <<>>
            /\ q = <<>>
               => /\ last.result.results = everything
                  /\ last.result.total_found = Len(everything)

C2_Witness ==
    /\ Called("search_items")
    /\ last.args.query = <<>>
    /\ last.result.total_found >= 2

(* C3: when list_name is given and names a list of the caller (any name    *)
(* create_list accepts, the empty string included), every result carries   *)
(* that list_name and only that list is searched; otherwise all the        *)
(* caller's lists are searched; the call succeeds either way.              *)
C3_ScopedSearch ==
    Called("search_items") =>
        LET user_lists == user_lists_data[last.user]
            scope == last.args.list_name
            res == last.result.results
        IN  /\ last.result.success
            /\ IF scope # <<>> /\ scope[1] \in Names(user_lists)
               THEN /\ \A i \in 1..Len(res) : res[i].list_name = scope[1]
                    /\ res = SearchResults(last.args.query,
                                           <<Lookup(user_lists, scope[1])>>)
               ELSE res = SearchResults(last.args.query, user_lists)

ReadTools == {"get_lists", "get_list_items", "search_items"}

C5_UserIsolation ==
    [][ LET u == last'.user
            alone == Apply(Only(user_lists_data, u), last')
        IN  /\ \A v \in Users \ {u} :
                  /\ v \in DOMAIN user_lists_data' <=> v \in DOMAIN user_lists_data
                  /\ ListsOf(user_lists_data', v) = ListsOf(user_lists_data, v)
            /\ last'.result = alone.result
            /\ user_lists_data'[u] = alone.data[u] ]_vars

C5_Witness ==
    /\ Succeeded("get_list_items")
    /\ last.result.items # <<>>
    /\ \E v \in Users \ {last.user} :
          /\ HasKey(ListsOf(user_lists_data, v), last.args.list_name)
          /\ ItemsOf(user_lists_data, v, last.args.list_name) # last.result.items
          /\ ItemsOf(user_lists_data, v, last.args.list_name) # <<>>

(* What each tool requires of the store it is called on. *)
PreconditionViolated(data, c) ==
    LET user_lists == ListsOf(data, c.user)
        missing == c.args.list_name \notin Names(user_lists)
        no_item ==
            \A it \in AllItems(<<Lookup(user_lists, c.args.list_name)>>) :
                it.id # c.args.item_id
    IN  CASE c.op = "create_list" -> c.args.name \in Names(user_lists)
          [] c.op \in {"add_item_to_list", "get_list_items", "delete_list"} -> missing
          [] c.op \in {"remove_item_from_list", "toggle_item_completion"} ->
               missing \/ no_item
          [] OTHER -> FALSE

(* C6: every precondition violation returns success = false and leaves     *)
(* every user's lists (names, descriptions, item sequences) unchanged.     *)
C6_FailureChangesNothing ==
    [][ PreconditionViolated(user_lists_data, last') =>
            /\ last'.result.success = FALSE
            /\ \A u \in Users :
                  ListsOf(user_lists_data', u) = ListsOf(user_lists_data, u) ]_vars

C6_Witness ==
    /\ Called("create_list")
    /\ last.result.success = FALSE
    /\ ItemsOf(user_lists_data, last.user, last.args.name) # <<>>

Sequential(items) == \A i \in 1..Len(items) : items[i].id = i

(* C7: a list starts empty, and while no item is removed from it every     *)
(* call keeps its ids equal to 1..N; a successful add returns id N + 1,    *)
(* completed = false, and appends that item at the end.                    *)
C7_AddsNumberInOrder ==
    [][ \A u \in Users, l \in ListNames :
          LET before == ListsOf(user_lists_data, u)
              after == ListsOf(user_lists_data', u)
              here == last'.user = u /\ last'.result.success
                      /\ "list_name" \in DOMAIN last'.args
                      /\ last'.args.list_name = l
              items == Lookup(before, l).items
              items2 == Lookup(after, l).items
          IN  /\ (l \notin Names(before) /\ l \in Names(after)) => items2 = <<>>
              /\ (/\ l \in Names(before)
                  /\ l \in Names(after)
                  /\ Sequential(items)
                  /\ ~(here /\ last'.op = "remove_item_from_list"))
                 => /\ Sequential(items2)
                    /\ (here /\ last'.op = "add_item_to_list")
                       => /\ last'.result.item.id = Len(items) + 1
                          /\ last'.result.item.completed = FALSE
                          /\ items2 = Append(items, last'.result.item) ]_vars

C7_Witness ==
    /\ Succeeded("add_item_to_list")
    /\ last.result.item.id = 3
    /\ Ids(ItemsOf(user_lists_data, last.user, last.args.list_name)) = <<1, 2, 3>>

(* C8: whenever toggle_item_completion succeeds, calling it again with the *)
(* same arguments succeeds too and restores the whole store.               *)
C8_ToggleTwiceRestores ==
    \A u \in Users, l \in ListNames, id \in ItemIds :
        LET r1 == toggle_item_completion(user_lists_data, u, l, id)
            r2 == toggle_item_completion(r1.data, u, l, id)
        IN  r1.result.success =>
                /\ r1.data # user_lists_data
                /\ r2.result.success
                /\ r2.data = user_lists_data

C8_Witness ==
    /\ Succeeded("toggle_item_completion")
    /\ last.result.item.completed = FALSE

(* C9: on a list with ids 1,2,3, removing id 2 and adding one item gives   *)
(* the new item id 3, so the list holds ids 1,3,3; the survivors keep      *)
(* their ids and their places.                                             *)
C9_IdReusedAfterRemoval ==
    \A u \in Users, l \in ListNames, in \in ItemInputs :
        (/\ l \in Names(ListsOf(user_lists_data, u))
         /\ Ids(ItemsOf(user_lists_data, u, l)) = <<1, 2, 3>>)
        => LET items == ItemsOf(user_lists_data, u, l)
               r1 == remove_item_from_list(user_lists_data, u, l, 2)
               r2 == add_item_to_list(r1.data, u, l, in.item, in.quantity, in.notes)
           IN  /\ r1.result.success
               /\ ItemsOf(r1.data, u, l) = <<items[1], items[3]>>
               /\ r2.result.success
               /\ r2.result.item.id = 3
               /\ ItemsOf(r2.data, u, l) = <<items[1], items[3], r2.result.item>>
               /\ Ids(ItemsOf(r2.data, u, l)) = <<1, 3, 3>>

C9_Witness ==
    /\ Succeeded("add_item_to_list")
    /\ last.result.item.id = 3
    /\ Ids(ItemsOf(user_lists_data, last.user, last.args.list_name)) = <<1, 3, 3>>

(* C10: a successful toggle_item_completion flips `completed` of the first *)
(* item of the list with that id and changes nothing else: not that item's *)
(* other fields, not the other items (a later one with the same id         *)
(* included), not the list's name or description, not any other list of    *)
(* any user.                                                               *)
C10_ToggleFlipsOnlyFirstMatch ==
    [][ (last'.op = "toggle_item_completion" /\ last'.result.success) =>
          LET u == last'.user
              l == last'.args.list_name
              before == ListsOf(user_lists_data, u)
              after == ListsOf(user_lists_data', u)
          IN  /\ \A v \in Users \ {u} :
                    ListsOf(user_lists_data', v) = ListsOf(user_lists_data, v)
              /\ Len(after) = Len(before)
              /\ \A k \in 1..Len(before) :
                    IF before[k].name # l THEN after[k] = before[k]
                    ELSE LET items == before[k].items
                             items2 == after[k].items
                             hits == {i \in 1..Len(items) :
                                          items[i].id = last'.args.item_id}
                             first == CHOOSE i \in hits : \A j \in hits : i <= j
                         IN  /\ after[k].name = before[k].name
                             /\ after[k].description = before[k].description
                             /\ Len(items2) = Len(items)
                             /\ \A i \in 1..Len(items) :
                                   IF i = first
                                   THEN /\ items2[i].completed = ~items[i].completed
                                        /\ items2[i].id = items[i].id
                                        /\ items2[i].text = items[i].text
                                        /\ items2[i].quantity = items[i].quantity
                                        /\ items2[i].notes = items[i].notes
                                        /\ last'.result.item = items2[i]
                                   ELSE items2[i] = items[i] ]_vars

C10_Witness ==
    /\ Succeeded("toggle_item_completion")
    /\ LET items == ItemsOf(user_lists_data, last.user, last.args.list_name)
       IN  \E i, j \in 1..Len(items) :
              /\ i < j
              /\ items[i].id = last.args.item_id
              /\ items[j].id = last.args.item_id
              /\ items[i].completed
              /\ ~items[j].completed

====
